---- MODULE Spec2Model ----
(***************************************************************************)
(* Role management of GTLaundry: the public.users directory, the           *)
(* admin_users role table and the stored procedures that guard it          *)
(* (promote_user_to_admin, demote_admin_to_user, get_all_users), together  *)
(* with the sign-up trigger and the bootstrap script that create the rows  *)
(* the procedures work on.                                                 *)
(***************************************************************************)
EXTENDS Integers, Sequences, FiniteSets, TLC

\* ------------------------------------------------------------------ bounds
MaxUsers == 3

\* database sessions that can run a procedure at the same time
MaxTxns == 2

\* --------------------------------------------------------------- constants
\* the null uuid: created_by of the first admin, target of a call without one
NULL == 0

UserIds == 1..MaxUsers

\* role texts a request can carry; "moderator" stands for any other text
RoleInputs == {"user", "admin", "super_admin", "moderator"}

\* the two migrations that define the procedures
Schemas == {"users-schema", "users-schema-ultra-safe"}

OK == "true"
PromoteUnauthorized == "Only super_admins can promote users to admin"
DemoteUnauthorized == "Only super_admins can demote users"
UserDoesNotExist == "User does not exist"
Untouchable == "Cannot modify super_admin role - super_admins are untouchable"
ListUnauthorized == "Only admins can view all users"

VARIABLES
  schema,       \* which migration installed the procedures
  users,        \* public.users: the ids of the registered users
  admin_users,  \* public.admin_users: rows [id, role, created_by], oldest first
  last,         \* the most recent operation, its arguments and its outcome
  txns,         \* the procedure calls in flight, one per database session
  http,         \* the last request to an /api/admin/users route and its answer
  page,         \* the state of AdminUsersPage in the signed-in user's browser
  admin_audit_log  \* public.admin_audit_log: the entries inserted, oldest first

\* what lives outside the tables and the record of the last call
appVars == <<txns, http, page, admin_audit_log>>

vars ==
  <<schema, users, admin_users, last, txns, http, page, admin_audit_log>>

\* auth.uid(): the id of the signed-in user; a request without a session
\* matches no row of admin_users, exactly like a user who has none
Callers == users

\* ------------------------------------------------------------ table helpers
\* select * from admin_users where id = uid
RowsOf(tbl, uid) == {tbl[i] : i \in {j \in DOMAIN tbl : tbl[j].id = uid}}

\* exists (select 1 from admin_users where id = uid and role in roles)
HasRole(tbl, uid, roles) ==
  \E i \in DOMAIN tbl : tbl[i].id = uid /\ tbl[i].role \in roles

\* an upsert whose conflict branch forgets to record the new creator
Upsert_KeepsCreator(tbl, row) ==
  IF \E i \in DOMAIN tbl : tbl[i].id = row.id
  THEN [i \in DOMAIN tbl |->
          IF tbl[i].id = row.id THEN [tbl[i] EXCEPT !.role = row.role]
          ELSE tbl[i]]
  ELSE Append(tbl, row)

\* an upsert whose conflict branch updates every row of the table
Upsert_EveryRow(tbl, row) ==
  IF \E i \in DOMAIN tbl : tbl[i].id = row.id
  THEN [i \in DOMAIN tbl |->
          [tbl[i] EXCEPT !.role = row.role, !.created_by = row.created_by]]
  ELSE Append(tbl, row)

\* insert ... on conflict (id) do update set role, created_by
Upsert(tbl, row) ==
  IF \E i \in DOMAIN tbl : tbl[i].id = row.id
  THEN [i \in DOMAIN tbl |->
          IF tbl[i].id = row.id
          THEN [tbl[i] EXCEPT !.role = row.role, !.created_by = row.created_by]
          ELSE tbl[i]]
  ELSE Append(tbl, row)

\* delete from admin_users where id = uid
DeleteRow(tbl, uid) == SelectSeq(tbl, LAMBDA r : r.id # uid)

\* a validation that lets every role text through
ValidRoles_Any(s) == RoleInputs

\* the role texts the installed promote_user_to_admin accepts
ValidRoles(s) ==
  IF s = "users-schema" THEN {"user", "admin"}
  ELSE {"user", "admin", "super_admin"}

InvalidRole(s) ==
  IF s = "users-schema" THEN "Invalid role. Must be user or admin"
  ELSE "Invalid role. Must be user, admin, or super_admin"

\* ------------------------------------------------------- stored procedures
\* promote without the untouchable guard
promote_NoUntouchableGuard(s, tbl, dir, uid, target_user_id, new_role) ==
  IF ~HasRole(tbl, uid, {"super_admin"})
  THEN [result |-> PromoteUnauthorized, table |-> tbl]
  ELSE IF target_user_id \notin dir
  THEN [result |-> UserDoesNotExist, table |-> tbl]
  ELSE IF new_role \notin ValidRoles(s)
  THEN [result |-> InvalidRole(s), table |-> tbl]
  ELSE [result |-> OK,
        table |-> Upsert(tbl, [id |-> target_user_id, role |-> new_role,
                               created_by |-> uid])]

\* promote with the untouchable guard tested before the caller's own role
promote_UntouchableFirst(s, tbl, dir, uid, target_user_id, new_role) ==
  IF HasRole(tbl, target_user_id, {"super_admin"})
  THEN [result |-> Untouchable, table |-> tbl]
  ELSE IF ~HasRole(tbl, uid, {"super_admin"})
  THEN [result |-> PromoteUnauthorized, table |-> tbl]
  ELSE IF target_user_id \notin dir
  THEN [result |-> UserDoesNotExist, table |-> tbl]
  ELSE IF new_role \notin ValidRoles(s)
  THEN [result |-> InvalidRole(s), table |-> tbl]
  ELSE [result |-> OK,
        table |-> Upsert(tbl, [id |-> target_user_id, role |-> new_role,
                               created_by |-> uid])]

\* promote that also lets plain admins through the caller check
promote_AdminsAllowed(s, tbl, dir, uid, target_user_id, new_role) ==
  IF ~HasRole(tbl, uid, {"admin", "super_admin"})
  THEN [result |-> PromoteUnauthorized, table |-> tbl]
  ELSE IF target_user_id \notin dir
  THEN [result |-> UserDoesNotExist, table |-> tbl]
  ELSE IF HasRole(tbl, target_user_id, {"super_admin"})
  THEN [result |-> Untouchable, table |-> tbl]
  ELSE IF new_role \notin ValidRoles(s)
  THEN [result |-> InvalidRole(s), table |-> tbl]
  ELSE [result |-> OK,
        table |-> Upsert(tbl, [id |-> target_user_id, role |-> new_role,
                               created_by |-> uid])]

\* promote without the existence check on the target
promote_NoExistenceCheck(s, tbl, dir, uid, target_user_id, new_role) ==
  IF ~HasRole(tbl, uid, {"super_admin"})
  THEN [result |-> PromoteUnauthorized, table |-> tbl]
  ELSE IF HasRole(tbl, target_user_id, {"super_admin"})
  THEN [result |-> Untouchable, table |-> tbl]
  ELSE IF new_role \notin ValidRoles(s)
  THEN [result |-> InvalidRole(s), table |-> tbl]
  ELSE [result |-> OK,
        table |-> Upsert(tbl, [id |-> target_user_id, role |-> new_role,
                               created_by |-> uid])]

promote_user_to_admin(s, tbl, dir, uid, target_user_id, new_role) ==
  IF ~HasRole(tbl, uid, {"super_admin"})
  THEN [result |-> PromoteUnauthorized, table |-> tbl]
  ELSE IF target_user_id \notin dir
  THEN [result |-> UserDoesNotExist, table |-> tbl]
  ELSE IF HasRole(tbl, target_user_id, {"super_admin"})
  THEN [result |-> Untouchable, table |-> tbl]
  ELSE IF new_role \notin ValidRoles(s)
  THEN [result |-> InvalidRole(s), table |-> tbl]
  ELSE [result |-> OK,
        table |-> Upsert(tbl, [id |-> target_user_id, role |-> new_role,
                               created_by |-> uid])]

\* demote without the untouchable guard
demote_NoUntouchableGuard(tbl, uid, target_user_id) ==
  IF ~HasRole(tbl, uid, {"super_admin"})
  THEN [result |-> DemoteUnauthorized, table |-> tbl]
  ELSE [result |-> OK, table |-> DeleteRow(tbl, target_user_id)]

\* demote that insists on an existing row
demote_RequiresRow(tbl, uid, target_user_id) ==
  IF ~HasRole(tbl, uid, {"super_admin"})
  THEN [result |-> DemoteUnauthorized, table |-> tbl]
  ELSE IF HasRole(tbl, target_user_id, {"super_admin"})
  THEN [result |-> Untouchable, table |-> tbl]
  ELSE IF RowsOf(tbl, target_user_id) = {}
  THEN [result |-> "User is not an admin", table |-> tbl]
  ELSE [result |-> OK, table |-> DeleteRow(tbl, target_user_id)]

demote_admin_to_user(tbl, uid, target_user_id) ==
  IF ~HasRole(tbl, uid, {"super_admin"})
  THEN [result |-> DemoteUnauthorized, table |-> tbl]
  ELSE IF HasRole(tbl, target_user_id, {"super_admin"})
  THEN [result |-> Untouchable, table |-> tbl]
  ELSE [result |-> OK, table |-> DeleteRow(tbl, target_user_id)]

\* a join on the wrong column: au.created_by instead of au.id
JoinRows_ByCreator(tbl, u) ==
  IF \A i \in DOMAIN tbl : tbl[i].created_by # u
  THEN <<[id |-> u, admin_role |-> "user", is_admin |-> FALSE]>>
  ELSE LET m == SelectSeq(tbl, LAMBDA r : r.created_by = u)
       IN  [i \in DOMAIN m |->
              [id |-> u, admin_role |-> m[i].role, is_admin |-> TRUE]]

\* the rows of one user in "users u left join admin_users au on u.id = au.id"
JoinRows(tbl, u) ==
  IF RowsOf(tbl, u) = {}
  THEN <<[id |-> u, admin_role |-> "user", is_admin |-> FALSE]>>
  ELSE LET m == SelectSeq(tbl, LAMBDA r : r.id = u)
       IN  [i \in DOMAIN m |->
              [id |-> u, admin_role |-> m[i].role, is_admin |-> TRUE]]

\* ids are issued in registration order, so created_at grows with the id
created_at(u) == u

\* order by u.created_at without the desc
RECURSIVE OrderByCreatedAt_Asc(_)
OrderByCreatedAt_Asc(S) ==
  IF S = {} THEN <<>>
  ELSE LET u == CHOOSE x \in S : \A y \in S : created_at(x) <= created_at(y)
       IN  <<u>> \o OrderByCreatedAt_Asc(S \ {u})

RECURSIVE OrderByCreatedAtDesc(_)
OrderByCreatedAtDesc(S) ==
  IF S = {} THEN <<>>
  ELSE LET u == CHOOSE x \in S : \A y \in S : created_at(y) <= created_at(x)
       IN  <<u>> \o OrderByCreatedAtDesc(S \ {u})

RECURSIVE JoinAll(_, _)
JoinAll(tbl, order) ==
  IF order = <<>> THEN <<>>
  ELSE JoinRows(tbl, Head(order)) \o JoinAll(tbl, Tail(order))

\* a listing that lets every caller with a row through
get_all_users_AnyRow(tbl, dir, uid) ==
  IF RowsOf(tbl, uid) = {}
  THEN [result |-> ListUnauthorized, rows |-> <<>>]
  ELSE [result |-> OK, rows |-> JoinAll(tbl, OrderByCreatedAtDesc(dir))]

get_all_users(tbl, dir, uid) ==
  IF ~HasRole(tbl, uid, {"admin", "super_admin"})
  THEN [result |-> ListUnauthorized, rows |-> <<>>]
  ELSE [result |-> OK, rows |-> JoinAll(tbl, OrderByCreatedAtDesc(dir))]

\* ------------------------------------------------------------------ record
Call(op, uid, target, role, result, old, rows) ==
  [op |-> op, caller |-> uid, target |-> target, new_role |-> role,
   result |-> result, old |-> old, rows |-> rows]

\* ------------------------------------------------------------------- state
Txns == 1..MaxTxns

\* a session that runs no procedure; result is what its last call returned
Idle ==
  [op |-> "", caller |-> NULL, target |-> NULL, new_role |-> "", old |-> {},
   pc |-> "idle", result |-> ""]

\* a request body without the fields the routes read
NoBody == [kind |-> "object", userId |-> [kind |-> "missing", id |-> NULL],
           role |-> ""]

\* rpc: whether the procedure ran, result: what it returned or raised
NoRequest ==
  [route |-> "", caller |-> NULL, body |-> NoBody, status |-> 0, error |-> "",
   rpc |-> FALSE, result |-> "", adminUsers |-> <<>>]

\* the request of a list-row button that waits for its answer, if any
NoRowRequest == [op |-> "", userId |-> NULL, role |-> ""]

\* the insert of the promote modal that waits for its answer, if any
NoModal == [step |-> "", userId |-> NULL, role |-> ""]

\* the page as it mounts: the useState initial values, the query not yet
\* answered (adminUsers undefined, which every use treats as an empty list),
\* no search in flight; event is the last thing that happened on the page,
\* invalidated whether the admin-users query is marked stale, alert the text
\* of the last alert() and console the last console.error() line
Mounted(uid) ==
  [user |-> uid, adminUsers |-> <<>>, filterRole |-> "all",
   sortBy |-> "newest", filteredUsers |-> <<>>, searchEmail |-> <<>>,
   searchResults |-> <<>>, isSearching |-> FALSE, pending |-> {},
   event |-> [op |-> "mount", email |-> <<>>, ok |-> TRUE],
   selectedUser |-> NULL, showPromoteModal |-> FALSE, isProcessing |-> FALSE,
   request |-> NoRowRequest, modal |-> NoModal, invalidated |-> FALSE,
   alert |-> <<>>, console |-> <<>>]

InitApp ==
  /\ txns = [t \in Txns |-> Idle]
  /\ http = NoRequest
  /\ page = Mounted(NULL)
  /\ admin_audit_log = <<>>

Init ==
  /\ schema \in Schemas
  /\ users = {}
  /\ admin_users = <<>>
  /\ last = Call("init", NULL, NULL, "", OK, {}, <<>>)
  /\ InitApp

\* trigger on_auth_user_created: a sign-up adds the user to public.users
handle_new_user ==
  /\ Cardinality(users) < MaxUsers
  /\ LET id == Cardinality(users) + 1
     IN  /\ users' = users \cup {id}
         /\ last' = Call("handle_new_user", NULL, id, "", OK, {}, <<>>)
  /\ UNCHANGED <<schema, admin_users>>
  /\ UNCHANGED appVars

\* the users in the order they registered (oldest first)
RECURSIVE OrderByCreatedAt(_)
OrderByCreatedAt(S) ==
  IF S = {} THEN <<>>
  ELSE LET u == CHOOSE x \in S : \A y \in S : created_at(x) <= created_at(y)
       IN  <<u>> \o OrderByCreatedAt(S \ {u})

RECURSIVE UpsertAll(_, _, _)
UpsertAll(tbl, ids, creator) ==
  IF ids = <<>> THEN tbl
  ELSE UpsertAll(Upsert(tbl, [id |-> Head(ids), role |-> "super_admin",
                              created_by |-> creator]),
                 Tail(ids), creator)

\* node setup-users-and-admin.js: every user without a row becomes super_admin
setupUsersAndAdmins ==
  /\ UNCHANGED <<schema, users>>
  /\ UNCHANGED appVars
  /\ IF users = {}
     THEN /\ admin_users' = admin_users
          /\ last' = Call("setup", NULL, NULL, "", "No users found", {}, <<>>)
     ELSE LET existingAdmins == admin_users
              nonAdminUsers == {u \in users : RowsOf(existingAdmins, u) = {}}
              creator == IF existingAdmins = <<>> THEN NULL
                         ELSE existingAdmins[1].id
          IN  /\ admin_users' =
                   UpsertAll(admin_users, OrderByCreatedAt(nonAdminUsers),
                             creator)
              /\ last' = Call("setup", NULL, NULL, "super_admin",
                              "Setup complete", {}, <<>>)

promote ==
  \E uid \in Callers, target \in UserIds, role \in RoleInputs :
    LET r == promote_user_to_admin(schema, admin_users, users, uid, target, role)
    IN  /\ admin_users' = r.table
        /\ last' = Call("promote", uid, target, role, r.result,
                        RowsOf(admin_users, target), <<>>)
        /\ UNCHANGED <<schema, users>>
        /\ UNCHANGED appVars

demote ==
  \E uid \in Callers, target \in UserIds :
    LET r == demote_admin_to_user(admin_users, uid, target)
    IN  /\ admin_users' = r.table
        /\ last' = Call("demote", uid, target, "", r.result,
                        RowsOf(admin_users, target), <<>>)
        /\ UNCHANGED <<schema, users>>
        /\ UNCHANGED appVars

listAllWithRoles ==
  \E uid \in Callers :
    LET r == get_all_users(admin_users, users, uid)
    IN  /\ last' = Call("get_all_users", uid, NULL, "", r.result, {}, r.rows)
        /\ UNCHANGED <<schema, users, admin_users>>
        /\ UNCHANGED appVars

Next ==
  \/ handle_new_user
  \/ setupUsersAndAdmins
  \/ promote
  \/ demote
  \/ listAllWithRoles

Spec == Init /\ [][Next]_vars

\* ------------------------------------------------ the gate without bootstrap
\* A registry nobody is super_admin in: users have no row or an admin row
\* that was written directly into the table.  Only the procedures run.
NoSuperTables ==
  {t \in UNION {[1..n -> [id : UserIds, role : {"admin"}, created_by : {NULL}]] :
                  n \in 0..MaxUsers} :
     \A i, j \in DOMAIN t : i < j => t[i].id < t[j].id}

InitGate ==
  /\ schema \in Schemas
  /\ users = UserIds
  /\ admin_users \in NoSuperTables
  /\ last = Call("init", NULL, NULL, "", OK, {}, <<>>)
  /\ InitApp

NextGate ==
  \/ promote
  \/ demote
  \/ listAllWithRoles

SpecGate == InitGate /\ [][NextGate]_vars

\* ------------------------------------------- procedures, one statement a step
\* Each rpc runs its procedure in a transaction of its own at the default
\* isolation level (read committed): every statement of the body reads the
\* rows committed when that statement starts, and the transaction commits
\* when the body returns.  A step below is one statement that reads or writes
\* admin_users; the write is the last statement, so it commits with it.

\* a directory after the first run of the bootstrap script: the users that
\* existed then are super_admin, the one who signed up later has no row
InitConc ==
  /\ schema \in Schemas
  /\ users = UserIds
  /\ admin_users = [i \in 1..(MaxUsers - 1) |->
                      [id |-> i, role |-> "super_admin", created_by |-> NULL]]
  /\ last = Call("init", NULL, NULL, "", OK, {}, <<>>)
  /\ InitApp

Fail(t, msg) == [txns EXCEPT ![t] = [Idle EXCEPT !.result = msg]]

\* the call arrives and runs the caller check, then (promote) the existence
\* check, which reads public.users only
TxnBegin(t) ==
  /\ txns[t].pc = "idle"
  /\ \E op \in {"promote", "demote"}, uid \in Callers, target \in UserIds :
       \E role \in IF op = "promote" THEN RoleInputs ELSE {""} :
         txns' =
           IF ~HasRole(admin_users, uid, {"super_admin"})
           THEN Fail(t, IF op = "promote" THEN PromoteUnauthorized
                        ELSE DemoteUnauthorized)
           ELSE IF op = "promote" /\ target \notin users
           THEN Fail(t, UserDoesNotExist)
           ELSE [txns EXCEPT ![t] =
                   [op |-> op, caller |-> uid, target |-> target,
                    new_role |-> role, old |-> RowsOf(admin_users, target),
                    pc |-> "untouchable", result |-> ""]]
  /\ UNCHANGED <<schema, users, admin_users, last>>
  /\ UNCHANGED <<http, page, admin_audit_log>>

\* the untouchable check, then (promote) the validation of new_role
TxnUntouchable(t) ==
  /\ txns[t].pc = "untouchable"
  /\ txns' =
       IF HasRole(admin_users, txns[t].target, {"super_admin"})
       THEN Fail(t, Untouchable)
       ELSE IF txns[t].op = "promote" /\ txns[t].new_role \notin ValidRoles(schema)
       THEN Fail(t, InvalidRole(schema))
       ELSE [txns EXCEPT ![t].pc = "write"]
  /\ UNCHANGED <<schema, users, admin_users, last>>
  /\ UNCHANGED <<http, page, admin_audit_log>>

\* the upsert or the delete, return true and commit
TxnWrite(t) ==
  /\ txns[t].pc = "write"
  /\ admin_users' =
       IF txns[t].op = "promote"
       THEN Upsert(admin_users, [id |-> txns[t].target,
                                 role |-> txns[t].new_role,
                                 created_by |-> txns[t].caller])
       ELSE DeleteRow(admin_users, txns[t].target)
  /\ txns' = Fail(t, OK)
  /\ UNCHANGED <<schema, users, last>>
  /\ UNCHANGED <<http, page, admin_audit_log>>

NextConc ==
  \E t \in Txns : TxnBegin(t) \/ TxnUntouchable(t) \/ TxnWrite(t)

SpecConc == InitConc /\ [][NextConc]_vars

\* ------------------------------------------------- /api/admin/users routes
\* What a request can carry as userId: nothing that counts as a value
\* (undefined, null, ""), a text that is not a uuid, or a uuid.
UserIdInputs ==
  {[kind |-> "missing", id |-> NULL], [kind |-> "text", id |-> NULL]}
    \cup {[kind |-> "uuid", id |-> u] : u \in UserIds}

\* role as the request carries it; "" stands for undefined, null and ""
RoleFieldInputs == {""} \cup RoleInputs

\* request bodies: text that is not JSON (or no body at all), the JSON value
\* null, and JSON objects with any of the fields above
Bodies ==
  {[kind |-> k, userId |-> NoBody.userId, role |-> ""] :
     k \in {"malformed", "null"}}
    \cup {[kind |-> "object", userId |-> u, role |-> r] :
            u \in UserIdInputs, r \in RoleFieldInputs}

\* !userId
Falsy(v) == v.kind = "missing"

InternalServerError == "Internal server error"
MissingUserIdOrRole == "Missing userId or role"
MissingUserId == "Missing userId"
RouteInvalidRole == "Invalid role. Must be user, admin, or super_admin"
FailedToFetchUsers == "Failed to fetch users"
InvalidUuid == "invalid input syntax for type uuid"

\* await request.json() followed by the destructuring of its value: both
\* throw, the first on text that is not JSON, the second on null
Throws(body) == body.kind \in {"malformed", "null"}

Response(status, error, rpc, tbl) ==
  [status |-> status, error |-> error, rpc |-> rpc, table |-> tbl,
   result |-> IF ~rpc THEN "" ELSE IF status = 200 THEN OK ELSE error]

\* POST /api/admin/users/promote
promoteRoute(s, tbl, dir, uid, body) ==
  IF Throws(body) THEN Response(500, InternalServerError, FALSE, tbl)
  ELSE IF Falsy(body.userId) \/ body.role = ""
  THEN Response(400, MissingUserIdOrRole, FALSE, tbl)
  ELSE IF body.role \notin {"user", "admin", "super_admin"}
  THEN Response(400, RouteInvalidRole, FALSE, tbl)
  \* the rpc: a target_user_id that is no uuid fails the argument cast, and
  \* the procedure body does not run
  ELSE IF body.userId.kind # "uuid"
  THEN Response(400, InvalidUuid, FALSE, tbl)
  ELSE LET r == promote_user_to_admin(s, tbl, dir, uid, body.userId.id,
                                      body.role)
       IN  IF r.result # OK THEN Response(400, r.result, TRUE, tbl)
           ELSE Response(200, "", TRUE, r.table)

\* POST /api/admin/users/demote
demoteRoute(tbl, uid, body) ==
  IF Throws(body) THEN Response(500, InternalServerError, FALSE, tbl)
  ELSE IF Falsy(body.userId) THEN Response(400, MissingUserId, FALSE, tbl)
  ELSE IF body.userId.kind # "uuid"
  THEN Response(400, InvalidUuid, FALSE, tbl)
  ELSE LET r == demote_admin_to_user(tbl, uid, body.userId.id)
       IN  IF r.result # OK THEN Response(400, r.result, TRUE, tbl)
           ELSE Response(200, "", TRUE, r.table)

\* allUsers.map(user => ({id, role: user.admin_role, ...}))
usersWithAdminStatus(allUsers) ==
  [i \in DOMAIN allUsers |->
     [id |-> allUsers[i].id, role |-> allUsers[i].admin_role]]

Answer(route, uid, body, r, list) ==
  [route |-> route, caller |-> uid, body |-> body, status |-> r.status,
   error |-> r.error, rpc |-> r.rpc, result |-> r.result, adminUsers |-> list]

POST_promote ==
  \E uid \in Callers, body \in Bodies :
    LET r == promoteRoute(schema, admin_users, users, uid, body)
    IN  /\ admin_users' = r.table
        /\ http' = Answer("promote", uid, body, r, <<>>)
        /\ UNCHANGED <<schema, users, last, txns, page, admin_audit_log>>

POST_demote ==
  \E uid \in Callers, body \in {b \in Bodies : b.role = ""} :
    LET r == demoteRoute(admin_users, uid, body)
    IN  /\ admin_users' = r.table
        /\ http' = Answer("demote", uid, body, r, <<>>)
        /\ UNCHANGED <<schema, users, last, txns, page, admin_audit_log>>

\* GET /api/admin/users/list
GET_list ==
  \E uid \in Callers :
    LET l == get_all_users(admin_users, users, uid)
        r == IF l.result # OK
             THEN [Response(500, FailedToFetchUsers, TRUE, admin_users)
                     EXCEPT !.result = l.result]
             ELSE Response(200, "", TRUE, admin_users)
    IN  /\ http' = Answer("list", uid, NoBody, r, usersWithAdminStatus(l.rows))
        /\ UNCHANGED <<schema, users, admin_users, last, txns, page,
                 admin_audit_log>>

NextHttp ==
  \/ handle_new_user
  \/ setupUsersAndAdmins
  \/ POST_promote
  \/ POST_demote
  \/ GET_list

SpecHttp == Init /\ [][NextHttp]_vars

\* ------------------------------------------------------- AdminUsersPage
\* Texts are sequences of one-character strings, so that their length, their
\* case and their substrings are what the code sees.
Emails ==
  << <<"x","y","z","@","x",".","c","o","m">>,
     <<"A","b","c","a","d","m","i","n","@","x",".","c","o","m">>,
     <<"a","b","c","u","s","e","r","@","x",".","c","o","m">>,
     <<"b","o","b","@","x",".","c","o","m">>,
     <<"c","a","t","@","x",".","c","o","m">> >>

\* users.email of user u
email(u) == Emails[u]

\* what the operator can have in the search box
Queries ==
  { <<>>, <<"a","b">>, <<"a","b","c">>, <<"A","B","C">>, <<"x","y","z">> }

\* searches that can wait for their response at the same time
MaxInFlight == 2

FilterRoles == {"all", "admin", "super_admin"}
SortKeys == {"newest", "oldest", "email", "role"}

Lower(ch) ==
  CASE ch = "A" -> "a" [] ch = "B" -> "b" [] ch = "C" -> "c" [] OTHER -> ch

LowerText(t) == [i \in DOMAIN t |-> Lower(t[i])]

\* the collation order of the characters in use: punctuation, then letters
Collation ==
  <<".", "@", "a", "b", "c", "d", "e", "i", "m", "n", "o", "r", "s", "t",
    "u", "x", "y", "z">>

CharRank(ch) == CHOOSE i \in DOMAIN Collation : Collation[i] = Lower(ch)

\* a.localeCompare(b) on texts: negative, zero or positive
RECURSIVE localeCompare(_, _)
localeCompare(a, b) ==
  IF a = <<>> /\ b = <<>> THEN 0
  ELSE IF a = <<>> THEN -1
  ELSE IF b = <<>> THEN 1
  ELSE IF CharRank(Head(a)) # CharRank(Head(b))
  THEN CharRank(Head(a)) - CharRank(Head(b))
  ELSE localeCompare(Tail(a), Tail(b))

\* localeCompare on the three role names, which differ in their first letter
RoleRank(role) ==
  CASE role = "admin" -> 1 [] role = "super_admin" -> 2 [] OTHER -> 3

\* the comparator handed to sort, for two rows of the list
Compare(key, a, b) ==
  CASE key = "newest" -> b.created_at - a.created_at
    [] key = "oldest" -> a.created_at - b.created_at
    [] key = "email" -> localeCompare(a.email, b.email)
    [] key = "role" -> RoleRank(a.role) - RoleRank(b.role)
    [] OTHER -> 0

\* Array.prototype.sort: stable, so rows the comparator ties keep their order
RECURSIVE Sort(_, _)
Sort(list, key) ==
  IF list = <<>> THEN <<>>
  ELSE LET sorted == Sort(SubSeq(list, 1, Len(list) - 1), key)
           x == list[Len(list)]
           n == Cardinality({i \in DOMAIN sorted :
                               Compare(key, sorted[i], x) <= 0})
       IN  SubSeq(sorted, 1, n) \o <<x>> \o SubSeq(sorted, n + 1, Len(sorted))

\* a memo that sorts a copy of the list
filteredUsersMemo_Copy(list, filter, key) ==
  LET filtered == IF filter # "all"
                  THEN SelectSeq(list, LAMBDA r : r.role = filter)
                  ELSE list
  IN  [filteredUsers |-> Sort(filtered, key), adminUsers |-> list]

\* the useMemo body: without a role filter, filtered is the cached list
\* itself and sort reorders that list in place
filteredUsersMemo(list, filter, key) ==
  LET filtered == IF filter # "all"
                  THEN SelectSeq(list, LAMBDA r : r.role = filter)
                  ELSE list
  IN  [filteredUsers |-> Sort(filtered, key),
       adminUsers |-> IF filter # "all" THEN list ELSE Sort(filtered, key)]

\* (data || []).map(user => ({id, role: user.admin_role, created_at, user}))
Shape(rows) ==
  [i \in DOMAIN rows |->
     [id |-> rows[i].id, role |-> rows[i].admin_role,
      created_at |-> created_at(rows[i].id), email |-> email(rows[i].id)]]

\* a render whose memo dependencies changed
Render(p) ==
  LET m == filteredUsersMemo(p.adminUsers, p.filterRole, p.sortBy)
  IN  [p EXCEPT !.filteredUsers = m.filteredUsers, !.adminUsers = m.adminUsers]

Event(op, q, ok) == [op |-> op, email |-> q, ok |-> ok]

\* a directory for the page to show: the bootstrap script has run, and the
\* user who signed up after it has no row or has been made admin; the page is
\* opened by the first super_admin or by that later user.  The page calls
\* get_all_users only, which both migrations define alike.
InitPage ==
  /\ schema = "users-schema-ultra-safe"
  /\ users = UserIds
  /\ \E role \in {"", "admin"} :
       LET boot == [i \in 1..(MaxUsers - 1) |->
                      [id |-> i, role |-> "super_admin", created_by |-> NULL]]
       IN  admin_users =
             IF role = "" THEN boot
             ELSE Upsert(boot, [id |-> MaxUsers, role |-> role,
                                created_by |-> 1])
  /\ last = Call("init", NULL, NULL, "", OK, {}, <<>>)
  /\ txns = [t \in Txns |-> Idle]
  /\ http = NoRequest
  /\ \E uid \in {1, MaxUsers} : page = Mounted(uid)
  /\ admin_audit_log = <<>>

\* the admin-users query is answered
fetchAdminUsers ==
  /\ LET l == get_all_users(admin_users, users, page.user)
     IN  page' =
           IF l.result # OK
           THEN [page EXCEPT !.event = Event("fetchAdminUsers", <<>>, FALSE)]
           ELSE Render([page EXCEPT !.adminUsers = Shape(l.rows),
                                    !.invalidated = FALSE,
                                    !.event = Event("fetchAdminUsers", <<>>, TRUE)])
  /\ UNCHANGED <<schema, users, admin_users, last, txns, http, admin_audit_log>>

\* the operator picks a role filter
setFilterRole ==
  /\ \E f \in FilterRoles \ {page.filterRole} :
       page' = Render([page EXCEPT !.filterRole = f,
                                   !.event = Event("setFilterRole", <<>>, TRUE)])
  /\ UNCHANGED <<schema, users, admin_users, last, txns, http, admin_audit_log>>

\* the operator picks a sort key
setSortBy ==
  /\ \E k \in SortKeys \ {page.sortBy} :
       page' = Render([page EXCEPT !.sortBy = k,
                                   !.event = Event("setSortBy", <<>>, TRUE)])
  /\ UNCHANGED <<schema, users, admin_users, last, txns, http, admin_audit_log>>

\* a guard that lets two-character texts through
TooShort_Two(q) == Len(q) < 2

\* email.length < 3
TooShort(q) == Len(q) < 3

\* searchUsers up to its fetch: whether a request goes out
searchUsers(q) == ~(q = <<>> \/ TooShort(q))

\* handleSearch up to its await: the search box changed to q
handleSearch ==
  /\ Cardinality(page.pending) < MaxInFlight
  /\ \E q \in Queries \ {page.searchEmail} :
       page' =
         IF TooShort(q)
         THEN [page EXCEPT !.searchEmail = q, !.searchResults = <<>>,
                           !.event = Event("handleSearch", q, TRUE)]
         ELSE [page EXCEPT
                 !.searchEmail = q,
                 !.isSearching = TRUE,
                 !.pending = IF searchUsers(q)
                             THEN @ \cup {[email |-> q,
                                           existingAdminIds |->
                                             {page.adminUsers[i].id :
                                                i \in DOMAIN page.adminUsers}]}
                             ELSE @,
                 !.event = Event("handleSearch", q, TRUE)]
  /\ UNCHANGED <<schema, users, admin_users, last, txns, http, admin_audit_log>>

\* whether text t contains query q, letter case ignored
Contains(t, q) ==
  \E i \in 1..(Len(t) - Len(q) + 1) :
    SubSeq(LowerText(t), i, i + Len(q) - 1) = LowerText(q)

\* POST /api/admin/users/search: the users whose email matches the query and
\* who hold no row in admin_users
searchRoute(dir, tbl, q) ==
  OrderByCreatedAtDesc({u \in dir : Contains(email(u), q) /\ RowsOf(tbl, u) = {}})

\* users.filter(u => !existingAdminIds.includes(u.id))
FilterOut(list, ids) == SelectSeq(list, LAMBDA u : u \notin ids)

\* handleSearch from its await on: a response arrives (ok) or the request
\* fails, the users already listed are filtered out and the rest is shown
handleSearchResume ==
  /\ \E s \in page.pending, ok \in BOOLEAN :
       LET found == IF ok THEN searchRoute(users, admin_users, s.email)
                    ELSE <<>>
       IN  page' = [page EXCEPT
                      !.searchResults = FilterOut(found, s.existingAdminIds),
                      !.isSearching = FALSE,
                      !.pending = @ \ {s},
                      !.event = Event("searchResponse", s.email, ok)]
  /\ UNCHANGED <<schema, users, admin_users, last, txns, http, admin_audit_log>>

NextPage ==
  \/ fetchAdminUsers
  \/ setFilterRole
  \/ setSortBy
  \/ handleSearch
  \/ handleSearchResume

SpecPage == InitPage /\ [][NextPage]_vars

\* ------------------------------------------- the page's promote and demote
\* The list-row buttons call the routes through fetch; the promote modal
\* writes admin_users and admin_audit_log through the browser's database
\* client.  Each handler is split at its awaits.

FailedToFetch == "Failed to fetch"
FailedToPromoteUser == "Failed to promote user"
FailedToDemoteUser == "Failed to demote user"
OnlySuperAdminsCanPromote == "Only super admins can promote users to admin roles."
ErrorPromotingUser == "Error promoting user. Please try again."
UserSuccessfullyDemoted == "User successfully demoted to regular user!"
DuplicateKey == "duplicate key value violates unique constraint"
PermissionDenied == "new row violates row-level security policy"

\* adminUsers?.find(au => au.id === user?.id)?.role
currentUserRole(p) ==
  LET mine == {i \in DOMAIN p.adminUsers : p.adminUsers[i].id = p.user}
  IN  IF mine = {} THEN "" ELSE p.adminUsers[CHOOSE i \in mine : TRUE].role

\* the rows of the rendered list that show a button of the given role
Buttons(p, role) ==
  {p.filteredUsers[i].id :
     i \in {j \in DOMAIN p.filteredUsers :
              /\ currentUserRole(p) = "super_admin"
              /\ p.filteredUsers[j].id # p.user
              /\ p.filteredUsers[j].role = role}}

\* a text that every email of the directory contains
EveryEmail == <<"x",".","c">>

\* the page opened on a directory as in InitPage, before any search or after
\* a search that was answered before the admin-users query
InitOps ==
  /\ schema = "users-schema-ultra-safe"
  /\ users = UserIds
  /\ \E role \in {"", "admin"} :
       LET boot == [i \in 1..(MaxUsers - 1) |->
                      [id |-> i, role |-> "super_admin", created_by |-> NULL]]
       IN  admin_users =
             IF role = "" THEN boot
             ELSE Upsert(boot, [id |-> MaxUsers, role |-> role,
                                created_by |-> 1])
  /\ last = Call("init", NULL, NULL, "", OK, {}, <<>>)
  /\ txns = [t \in Txns |-> Idle]
  /\ http = NoRequest
  /\ admin_audit_log = <<>>
  /\ \E uid \in {1, MaxUsers}, q \in {<<>>, EveryEmail} :
       page = IF q = <<>> THEN Mounted(uid)
              ELSE [Mounted(uid) EXCEPT
                      !.searchEmail = q,
                      !.searchResults = searchRoute(users, admin_users, q),
                      !.event = Event("searchResponse", q, TRUE)]

\* another super_admin changes a role from their own browser
otherPromote ==
  /\ \E uid \in users \ {page.user}, target \in users, role \in ValidRoles(schema) :
       LET r == promote_user_to_admin(schema, admin_users, users, uid,
                                      target, role)
       IN  /\ r.result = OK
           /\ admin_users' = r.table
  /\ UNCHANGED <<schema, users, last, txns, http, page, admin_audit_log>>

\* handlePromoteUser up to its await: Make Admin is clicked on a row
handlePromoteUser ==
  /\ ~page.isProcessing
  /\ \E userId \in Buttons(page, "user") :
       page' = [page EXCEPT
                  !.isProcessing = TRUE,
                  !.request = [op |-> "promote", userId |-> userId,
                               role |-> "admin"],
                  !.event = Event("handlePromoteUser", <<>>, TRUE)]
  /\ UNCHANGED <<schema, users, admin_users, last, txns, http, admin_audit_log>>

\* handleDemoteUser up to its await: Demote to User is clicked on a row
handleDemoteUser ==
  /\ ~page.isProcessing
  /\ \E userId \in Buttons(page, "admin") :
       page' = [page EXCEPT
                  !.isProcessing = TRUE,
                  !.request = [op |-> "demote", userId |-> userId,
                               role |-> ""],
                  !.event = Event("handleDemoteUser", <<>>, TRUE)]
  /\ UNCHANGED <<schema, users, admin_users, last, txns, http, admin_audit_log>>

\* a row handler that leaves the flag set when the request failed
rowHandlerEnd_NoFinally(p, op, threw, status, error) ==
  LET fallback == IF op = "promote" THEN FailedToPromoteUser
                  ELSE FailedToDemoteUser
      message == IF threw THEN FailedToFetch
                 ELSE IF error = "" THEN fallback ELSE error
  IN  IF threw \/ status \notin 200..299
      THEN [p EXCEPT !.console = <<op, message>>,
                     !.alert = <<"Error: ", message>>,
                     !.request = NoRowRequest,
                     !.event = Event(op, <<>>, FALSE)]
      ELSE [p EXCEPT !.invalidated = TRUE,
                     !.showPromoteModal = IF op = "promote" THEN FALSE ELSE @,
                     !.selectedUser = NULL,
                     !.alert = IF op = "promote"
                               THEN <<"User successfully promoted to ",
                                      p.request.role, "!">>
                               ELSE <<UserSuccessfullyDemoted>>,
                     !.isProcessing = FALSE,
                     !.request = NoRowRequest,
                     !.event = Event(op, <<>>, TRUE)]

\* handlePromoteUser and handleDemoteUser from the await on: the request
\* threw, or was answered with a status and an error text
rowHandlerEnd(p, op, threw, status, error) ==
  LET fallback == IF op = "promote" THEN FailedToPromoteUser
                  ELSE FailedToDemoteUser
      message == IF threw THEN FailedToFetch
                 ELSE IF error = "" THEN fallback ELSE error
  IN  IF threw \/ status \notin 200..299
      THEN [p EXCEPT !.console = <<op, message>>,
                     !.alert = <<"Error: ", message>>,
                     !.isProcessing = FALSE,
                     !.request = NoRowRequest,
                     !.event = Event(op, <<>>, FALSE)]
      ELSE [p EXCEPT !.invalidated = TRUE,
                     !.showPromoteModal = IF op = "promote" THEN FALSE ELSE @,
                     !.selectedUser = NULL,
                     !.alert = IF op = "promote"
                               THEN <<"User successfully promoted to ",
                                      p.request.role, "!">>
                               ELSE <<UserSuccessfullyDemoted>>,
                     !.isProcessing = FALSE,
                     !.request = NoRowRequest,
                     !.event = Event(op, <<>>, TRUE)]

\* the body JSON.stringify({ userId, role }) of a row request
RowBody(req) ==
  [kind |-> "object", userId |-> [kind |-> "uuid", id |-> req.userId],
   role |-> req.role]

\* the request of a row button returns: the route has answered, or fetch
\* threw before the request reached the route
handleRowResume ==
  /\ page.request # NoRowRequest
  /\ \E threw \in BOOLEAN :
       LET req == page.request
           r == IF req.op = "promote"
                THEN promoteRoute(schema, admin_users, users, page.user,
                                  RowBody(req))
                ELSE demoteRoute(admin_users, page.user, RowBody(req))
       IN  IF threw
           THEN /\ page' = rowHandlerEnd(page, req.op, TRUE, 0, "")
                /\ UNCHANGED <<admin_users, http>>
           ELSE /\ admin_users' = r.table
                /\ http' = Answer(req.op, page.user, RowBody(req), r, <<>>)
                /\ page' = rowHandlerEnd(page, req.op, FALSE, r.status, r.error)
  /\ UNCHANGED <<schema, users, last, txns, admin_audit_log>>

\* Promote is clicked on a search result
openPromoteModal ==
  /\ page.modal = NoModal
  /\ \E u \in {page.searchResults[i] : i \in DOMAIN page.searchResults} :
       page' = [page EXCEPT !.selectedUser = u, !.showPromoteModal = TRUE,
                            !.event = Event("openPromoteModal", <<>>, TRUE)]
  /\ UNCHANGED <<schema, users, admin_users, last, txns, http, admin_audit_log>>

\* handlePromote up to its first await: the modal's Promote button is
\* clicked with a role selected
handlePromote ==
  /\ page.showPromoteModal
  /\ page.selectedUser # NULL
  /\ page.user # NULL
  /\ page.modal = NoModal
  /\ \E role \in {"admin", "super_admin"} :
       page' =
         IF currentUserRole(page) # "super_admin"
         THEN [page EXCEPT !.alert = <<OnlySuperAdminsCanPromote>>,
                           !.event = Event("handlePromote", <<>>, FALSE)]
         ELSE [page EXCEPT !.modal = [step |-> "insert",
                                      userId |-> page.selectedUser,
                                      role |-> role],
                           !.event = Event("handlePromote", <<>>, TRUE)]
  /\ UNCHANGED <<schema, users, admin_users, last, txns, http, admin_audit_log>>

\* from('admin_users').insert(row): the primary key rejects a second row
\* for the same user
Insert(tbl, row) ==
  IF RowsOf(tbl, row.id) # {} THEN [error |-> DuplicateKey, table |-> tbl]
  ELSE [error |-> "", table |-> Upsert(tbl, row)]

\* a handler that goes on to the audit log whatever the insert returned
afterInsert_AuditAnyway(p, adminError) ==
  [p EXCEPT !.modal.step = "audit",
            !.event = Event("insert", <<>>, adminError = "")]

\* handlePromote after the insert into admin_users: if (adminError) throw
afterInsert(p, adminError) ==
  IF adminError # ""
  THEN [p EXCEPT !.console = <<"promote", adminError>>,
                 !.alert = <<ErrorPromotingUser>>,
                 !.modal = NoModal,
                 !.event = Event("insert", <<>>, FALSE)]
  ELSE [p EXCEPT !.modal.step = "audit",
                 !.event = Event("insert", <<>>, TRUE)]

\* the insert into admin_users returns: the table took the row, or the
\* database refused it (key conflict, row-level security)
handlePromoteInserted ==
  /\ page.modal.step = "insert"
  /\ \E denied \in BOOLEAN :
       LET row == [id |-> page.modal.userId, role |-> page.modal.role,
                   created_by |-> page.user]
           r == IF denied
                THEN [error |-> PermissionDenied, table |-> admin_users]
                ELSE Insert(admin_users, row)
       IN  /\ admin_users' = r.table
           /\ page' = afterInsert(page, r.error)
  /\ UNCHANGED <<schema, users, last, txns, http, admin_audit_log>>

\* the row handlePromote writes to admin_audit_log
AuditEntry(p) ==
  [admin_id |-> p.user, action |-> "promote_user", target_type |-> "user",
   target_id |-> p.modal.userId, new_data |-> [role |-> p.modal.role]]

\* handlePromote after the insert into admin_audit_log: an error is logged
\* and the handler completes as it does without one
afterAudit(p, auditError) ==
  [p EXCEPT !.console = IF auditError # "" THEN <<"audit", auditError>> ELSE @,
            !.invalidated = TRUE,
            !.showPromoteModal = FALSE,
            !.selectedUser = NULL,
            !.searchEmail = <<>>,
            !.searchResults = <<>>,
            !.alert = <<"User successfully promoted to ",
                        IF p.modal.role = "super_admin" THEN "Super Admin"
                        ELSE "Admin", "!">>,
            !.modal = NoModal,
            !.event = Event("audit", <<>>, auditError = "")]

\* the insert into admin_audit_log returns
handlePromoteAudited ==
  /\ page.modal.step = "audit"
  /\ \E denied \in BOOLEAN :
       /\ admin_audit_log' = IF denied THEN admin_audit_log
                             ELSE Append(admin_audit_log, AuditEntry(page))
       /\ page' = afterAudit(page, IF denied THEN PermissionDenied ELSE "")
  /\ UNCHANGED <<schema, users, admin_users, last, txns, http>>

NextOps ==
  \/ fetchAdminUsers
  \/ otherPromote
  \/ handlePromoteUser
  \/ handleDemoteUser
  \/ handleRowResume
  \/ openPromoteModal
  \/ handlePromote
  \/ handlePromoteInserted
  \/ handlePromoteAudited

SpecOps == InitOps /\ [][NextOps]_vars

\* every request the page sends is answered or fails in the end
SpecOpsLive ==
  /\ SpecOps
  /\ WF_vars(handleRowResume)
  /\ WF_vars(handlePromoteInserted)
  /\ WF_vars(handlePromoteAudited)

\* ================================================================== claims
Range(f) == {f[i] : i \in DOMAIN f}

GateOps == {"promote", "demote"}

\* the privilege level the listing reports: coalesce(au.role, 'user')
Level(tbl, u) == JoinRows(tbl, u)[1].admin_role

\* the message a caller without super_admin gets from the gate
Unauthorized(op) ==
  IF op = "promote" THEN PromoteUnauthorized ELSE DemoteUnauthorized

\* C1: once a user holds a super_admin row, every promote and demote call,
\* by any caller with any arguments, leaves that row in place with the same
\* role and the same creator.
C1_AbsorbingSuperAdmin ==
  [][last'.op \in GateOps =>
       \/ admin_users' = admin_users
       \/ \A i \in DOMAIN admin_users :
            admin_users[i].role = "super_admin" =>
              admin_users[i] \in Range(admin_users')]_vars

\* a super_admin tried to demote a super_admin
C1_Witness ==
  /\ last.op = "demote"
  /\ HasRole(admin_users, last.caller, {"super_admin"})
  /\ \E r \in last.old : r.role = "super_admin"
  /\ last.caller # last.target

\* C2 (as stated): every promote and demote that targets a super_admin fails
\* with the untouchable error, whoever the caller is.
C2_AlwaysUntouchable ==
  (last.op \in GateOps /\ \E r \in last.old : r.role = "super_admin")
    => last.result = Untouchable

\* C2 (amended): every promote and demote that targets a super_admin of the
\* directory fails and leaves the target's row as it was; the error is the
\* untouchable one when the caller is super_admin (for every requested
\* role) and the unauthorized one when the caller is not.
C2_TargetSuperAdminFails ==
  (last.op \in GateOps /\ last.target \in users
     /\ \E r \in last.old : r.role = "super_admin")
    => /\ RowsOf(admin_users, last.target) = last.old
       /\ last.result =
            IF HasRole(admin_users, last.caller, {"super_admin"})
            THEN Untouchable ELSE Unauthorized(last.op)

\* a super_admin asked to promote another super_admin to super_admin
C2_Witness ==
  /\ last.op = "promote"
  /\ last.new_role = "super_admin"
  /\ \E r \in last.old : r.role = "super_admin"
  /\ HasRole(admin_users, last.caller, {"super_admin"})
  /\ last.result = Untouchable

\* C3: a caller without a super_admin row (no row at all, or a row with
\* another role such as admin) gets Unauthorized from every promote and
\* demote, whatever the target and role, and admin_users is left unchanged.
C3_NonSuperAdminUnauthorized ==
  [][(last'.op \in GateOps
        /\ ~HasRole(admin_users, last'.caller, {"super_admin"}))
       => /\ last'.result = Unauthorized(last'.op)
          /\ admin_users' = admin_users]_vars

\* an admin tried to promote somebody
C3_Witness ==
  /\ last.op = "promote"
  /\ HasRole(admin_users, last.caller, {"admin"})
  /\ last.new_role \in ValidRoles(schema)
  /\ last.result = PromoteUnauthorized

\* C4: get_all_users fails with Unauthorized and returns no rows for a caller
\* whose row is absent or has a role outside {admin, super_admin}, and
\* succeeds for a caller with role admin or super_admin.
C4_ListAuthorization ==
  last.op = "get_all_users" =>
    IF \E r \in RowsOf(admin_users, last.caller) :
         r.role \in {"admin", "super_admin"}
    THEN last.result = OK
    ELSE last.result = ListUnauthorized /\ last.rows = <<>>

\* a caller whose row carries the role user asked for the listing
C4_Witness ==
  /\ last.op = "get_all_users"
  /\ HasRole(admin_users, last.caller, {"user"})
  /\ last.result = ListUnauthorized

\* C5: promote by a super_admin on an existing target that is not
\* super_admin, with a role the installed procedure accepts, returns true and
\* leaves the target with exactly one row, carrying that role and the caller
\* as creator: a new row if there was none, the old row rewritten otherwise.
C5_PromoteUpserts ==
  [][(/\ last'.op = "promote"
      /\ HasRole(admin_users, last'.caller, {"super_admin"})
      /\ last'.target \in users
      /\ ~HasRole(admin_users, last'.target, {"super_admin"})
      /\ last'.new_role \in ValidRoles(schema))
       => /\ last'.result = OK
          /\ Cardinality({i \in DOMAIN admin_users' :
                            admin_users'[i].id = last'.target}) = 1
          /\ RowsOf(admin_users', last'.target) =
               {[id |-> last'.target, role |-> last'.new_role,
                 created_by |-> last'.caller]}
          /\ Len(admin_users') =
               IF RowsOf(admin_users, last'.target) = {}
               THEN Len(admin_users) + 1 ELSE Len(admin_users)]_vars

\* a promote rewrote a row that another super_admin had created
C5_Witness ==
  /\ last.op = "promote"
  /\ last.result = OK
  /\ \E r \in last.old : r.created_by # last.caller /\ r.role # last.new_role
  /\ RowsOf(admin_users, last.target) =
       {[id |-> last.target, role |-> last.new_role,
         created_by |-> last.caller]}

\* C6: promote by a super_admin on an id that is not in public.users fails
\* with 'User does not exist' for every role and creates no row; so every row
\* of admin_users belongs to a user of the directory.
C6_PromoteUnknownTarget ==
  /\ [](\A i \in DOMAIN admin_users : admin_users[i].id \in users)
  /\ [][(/\ last'.op = "promote"
         /\ HasRole(admin_users, last'.caller, {"super_admin"})
         /\ last'.target \notin users)
          => /\ last'.result = UserDoesNotExist
             /\ admin_users' = admin_users]_vars

\* a super_admin tried to promote an id nobody registered
C6_Witness ==
  /\ last.op = "promote"
  /\ last.target \notin users
  /\ last.new_role \in ValidRoles(schema)
  /\ last.result = UserDoesNotExist

\* C7: promote by a super_admin on an existing target that is not
\* super_admin, with a role outside {user, admin, super_admin}, fails with
\* the invalid-role error and leaves admin_users unchanged.
C7_InvalidRoleRejected ==
  [][(/\ last'.op = "promote"
      /\ HasRole(admin_users, last'.caller, {"super_admin"})
      /\ last'.target \in users
      /\ ~HasRole(admin_users, last'.target, {"super_admin"})
      /\ last'.new_role \notin {"user", "admin", "super_admin"})
       => /\ last'.result = InvalidRole(schema)
          /\ admin_users' = admin_users]_vars

\* a super_admin asked for a role that does not exist
C7_Witness ==
  /\ last.op = "promote"
  /\ last.new_role = "moderator"
  /\ last.result = InvalidRole(schema)
  /\ admin_users # <<>>

\* C8: demote by a super_admin on a target that is not super_admin (with an
\* admin row, with no row, or not registered at all) succeeds and leaves the
\* target without a row; the same demote made again right away succeeds too
\* and leaves admin_users as the first call left it.
C8_DemoteIdempotent ==
  [][(/\ last'.op = "demote"
      /\ HasRole(admin_users, last'.caller, {"super_admin"})
      /\ ~HasRole(admin_users, last'.target, {"super_admin"}))
       => /\ last'.result = OK
          /\ RowsOf(admin_users', last'.target) = {}
          /\ demote_admin_to_user(admin_users', last'.caller, last'.target)
               = [result |-> OK, table |-> admin_users']]_vars

\* a demote removed an admin's row
C8_Witness ==
  /\ last.op = "demote"
  /\ last.result = OK
  /\ \E r \in last.old : r.role = "admin"
  /\ RowsOf(admin_users, last.target) = {}

\* C9: no row of admin_users carries the role user, and the listing never
\* reports a row with is_admin = true and role user.
C9_NoUserRoleRow ==
  /\ \A i \in DOMAIN admin_users : admin_users[i].role # "user"
  /\ \A k \in DOMAIN last.rows :
       ~(last.rows[k].is_admin /\ last.rows[k].admin_role = "user")

\* the moves of one user's privilege level that a promote can make
PromoteMoves ==
  {<<"user", "admin">>, <<"user", "super_admin">>,
   <<"admin", "super_admin">>, <<"admin", "user">>}

\* the move a demote can make
DemoteMoves == {<<"admin", "user">>}

C11_ThirdPromoteUntouchable ==
  [][schema = "users-schema-ultra-safe" =>
       /\ (/\ last'.op = "promote"
           /\ HasRole(admin_users, last'.caller, {"super_admin"})
           /\ HasRole(admin_users, last'.target, {"admin"})
           /\ last'.new_role = "super_admin")
            => /\ last'.result = OK
               /\ RowsOf(admin_users', last'.target) =
                    {[id |-> last'.target, role |-> "super_admin",
                      created_by |-> last'.caller]}
       /\ (/\ last.op = "promote" /\ last.result = OK
           /\ last.new_role = "super_admin"
           /\ \E r \in last.old : r.role = "admin"
           /\ last'.op = "promote" /\ last'.target = last.target)
            => /\ last'.result = Untouchable
               /\ admin_users' = admin_users]_vars

\* C11 (amended): with the procedure that accepts super_admin, a user
\* promoted to admin and then to super_admin by super_admins ends as
\* super_admin with the second caller as creator; every further promote on
\* that user changes nothing and fails, with the untouchable error when its
\* caller is super_admin and with the unauthorized error otherwise.
C11_RoundTrip ==
  [][schema = "users-schema-ultra-safe" =>
       /\ (/\ last'.op = "promote"
           /\ HasRole(admin_users, last'.caller, {"super_admin"})
           /\ HasRole(admin_users, last'.target, {"admin"})
           /\ last'.new_role = "super_admin")
            => /\ last'.result = OK
               /\ RowsOf(admin_users', last'.target) =
                    {[id |-> last'.target, role |-> "super_admin",
                      created_by |-> last'.caller]}
       /\ (/\ last.op = "promote" /\ last.result = OK
           /\ last.new_role = "super_admin"
           /\ \E r \in last.old : r.role = "admin"
           /\ last'.op = "promote" /\ last'.target = last.target)
            => /\ last'.result =
                    IF HasRole(admin_users, last'.caller, {"super_admin"})
                    THEN Untouchable ELSE PromoteUnauthorized
               /\ admin_users' = admin_users]_vars

\* an admin made by one super_admin was made super_admin by another
C11_Witness ==
  /\ last.op = "promote"
  /\ last.result = OK
  /\ last.new_role = "super_admin"
  /\ \E r \in last.old : r.role = "admin" /\ r.created_by # last.caller
  /\ RowsOf(admin_users, last.target) =
       {[id |-> last.target, role |-> "super_admin",
         created_by |-> last.caller]}

\* the rows a listing reports for user u
RowsFor(rows, u) == {k \in DOMAIN rows : rows[k].id = u}

\* C12: a listing made right after a successful promote to admin, by a caller
\* allowed to list, has exactly one row for the promoted user, with role
\* admin and is_admin = true.
C12_ReadYourWrite ==
  [][(/\ last.op = "promote" /\ last.result = OK /\ last.new_role = "admin"
      /\ last'.op = "get_all_users" /\ last'.result = OK)
       => /\ Cardinality(RowsFor(last'.rows, last.target)) = 1
          /\ \A k \in RowsFor(last'.rows, last.target) :
               /\ last'.rows[k].admin_role = "admin"
               /\ last'.rows[k].is_admin]_vars

\* a promote to admin just succeeded and its caller's listing shows it
C12_Witness ==
  /\ last.op = "promote"
  /\ last.result = OK
  /\ last.new_role = "admin"
  /\ LET l == get_all_users(admin_users, users, last.caller)
     IN  /\ l.result = OK
         /\ \E k \in DOMAIN l.rows :
              /\ l.rows[k].id = last.target
              /\ l.rows[k].admin_role = "admin"
              /\ l.rows[k].is_admin

\* C13: for a caller allowed to list, get_all_users changes nothing and
\* returns exactly one row per user of the directory, with the role of the
\* user's admin_users row (user when there is none) and is_admin true exactly
\* when that row exists, newest user first.
C13_ListContents ==
  /\ [][last'.op = "get_all_users" =>
          admin_users' = admin_users /\ users' = users]_vars
  /\ [](last.op = "get_all_users" /\ last.result = OK =>
          /\ Len(last.rows) = Cardinality(users)
          /\ \A u \in users : Cardinality(RowsFor(last.rows, u)) = 1
          /\ \A k \in DOMAIN last.rows :
               LET rs == RowsOf(admin_users, last.rows[k].id)
               IN  /\ last.rows[k].id \in users
                   /\ last.rows[k].is_admin = (rs # {})
                   /\ IF rs = {} THEN last.rows[k].admin_role = "user"
                      ELSE \E r \in rs : r.role = last.rows[k].admin_role
          /\ \A k \in 1..(Len(last.rows) - 1) :
               created_at(last.rows[k].id) > created_at(last.rows[k + 1].id))

\* a listing of three users, some with a row and some without
C13_Witness ==
  /\ last.op = "get_all_users"
  /\ last.result = OK
  /\ Len(last.rows) >= 3
  /\ \E k \in DOMAIN last.rows : ~last.rows[k].is_admin
  /\ \E k \in DOMAIN last.rows : last.rows[k].admin_role = "admin"

\* a session's call returns in this step
Returns(t) == txns[t].pc # "idle" /\ txns'[t].pc = "idle"

\* C14: with calls interleaved statement by statement, no step overwrites a
\* super_admin row with another role or deletes it.
C14_UntouchableUnderConcurrency ==
  [][\A u \in UserIds :
       HasRole(admin_users, u, {"super_admin"})
         => HasRole(admin_users', u, {"super_admin"})]_vars

\* C15 (as stated): promotes with a valid role by super_admin callers that
\* were started on a target without a super_admin row, and run interleaved
\* with other calls, all succeed, each leaving exactly one row for the target
\* that carries its own role together with its own caller.
C15_ConcurrentPromotesAllSucceed ==
  [][\A t \in Txns :
       (/\ Returns(t)
        /\ txns[t].op = "promote"
        /\ \A r \in txns[t].old : r.role # "super_admin"
        /\ txns[t].new_role \in ValidRoles(schema))
         => /\ txns'[t].result = OK
            /\ RowsOf(admin_users', txns[t].target) =
                 {[id |-> txns[t].target, role |-> txns[t].new_role,
                   created_by |-> txns[t].caller]}]_vars

\* C15 (amended): such a call succeeds unless, by the time of its untouchable
\* check, another call has made the target super_admin; it then fails with
\* the untouchable error and writes nothing.  A promote that succeeds leaves
\* exactly one row for the target, carrying its own role together with its
\* own caller (the last write wins as a whole); a demote that succeeds leaves
\* none, whether or not a row was left to delete.
C15_LastWriterWins ==
  [][\A t \in Txns :
       (/\ Returns(t)
        /\ \A r \in txns[t].old : r.role # "super_admin"
        /\ txns[t].op = "promote" => txns[t].new_role \in ValidRoles(schema))
         => IF txns[t].pc = "write"
            THEN /\ txns'[t].result = OK
                 /\ RowsOf(admin_users', txns[t].target) =
                      IF txns[t].op = "promote"
                      THEN {[id |-> txns[t].target, role |-> txns[t].new_role,
                             created_by |-> txns[t].caller]}
                      ELSE {}
            ELSE /\ txns'[t].result = Untouchable
                 /\ admin_users' = admin_users
                 /\ \E r \in RowsOf(admin_users, txns[t].target) :
                      r.role = "super_admin" /\ r.created_by \in users]_vars

\* two promotes of one target were in flight together: one has written a row
\* with its own role and caller, the other is about to overwrite it
C15_Witness ==
  \E t1, t2 \in Txns :
    /\ t1 # t2
    /\ txns[t1].pc = "idle" /\ txns[t1].result = OK
    /\ txns[t2].pc = "write" /\ txns[t2].op = "promote"
    /\ txns[t2].old = {}
    /\ \E r \in RowsOf(admin_users, txns[t2].target) :
         r.role # txns[t2].new_role /\ r.created_by # txns[t2].caller

\* the request just answered lacked a usable userId or (promote) role
BadRequest(h) ==
  \/ h.body.kind # "object"
  \/ h.body.userId.kind # "uuid"
  \/ h.route = "promote" /\ h.body.role \notin {"user", "admin", "super_admin"}

\* C16: a promote or demote request whose userId is missing or not a uuid, or
\* (promote) whose role is missing or not user/admin/super_admin, is answered
\* with 400, without the procedure being invoked and with admin_users
\* unchanged.
C16_BadRequestIs400 ==
  [][(http' # http /\ http'.route \in {"promote", "demote"} /\ BadRequest(http'))
       => /\ http'.status = 400
          /\ ~http'.rpc
          /\ admin_users' = admin_users]_vars

\* C17: a promote, demote or list request whose procedure raised is answered
\* with 400 and the procedure's message; 200 is answered only when the
\* procedure succeeded.
C17_ProcedureFailureIs400 ==
  [][(http' # http /\ http'.rpc)
       => /\ http'.result # OK
               => http'.status = 400 /\ http'.error = http'.result
          /\ http'.status = 200 => http'.result = OK]_vars

\* C18: when the search box changes to a text shorter than 3 characters, the
\* empty text included, the results become empty, no search request goes out
\* and nothing is raised; searchUsers itself sends nothing for such a text.
C18_SearchShortCircuit ==
  /\ [][(page' # page /\ page'.event.op = "handleSearch"
         /\ Len(page'.event.email) < 3)
          => /\ page'.searchResults = <<>>
             /\ page'.pending = page.pending
             /\ page'.isSearching = page.isSearching
             /\ page'.event.ok]_vars
  /\ [](\A q \in Queries : Len(q) < 3 => ~searchUsers(q))

\* a two-letter text was typed while an earlier search was still in flight
C18_Witness ==
  /\ page.event.op = "handleSearch"
  /\ Len(page.event.email) = 2
  /\ page.searchEmail = page.event.email
  /\ page.searchResults = <<>>
  /\ page.pending # {}

\* C19: when the response to a search of 3 or more characters has arrived,
\* the results shown are exactly the users whose email matches the text and
\* who hold no row in admin_users.
C19_SearchShowsCandidates ==
  (page.event.op = "searchResponse" /\ page.event.ok)
    => Range(page.searchResults) =
         {u \in users : /\ Contains(email(u), page.event.email)
                        /\ RowsOf(admin_users, u) = {}}

\* the list the last answer of get_all_users holds for the signed-in user
Fetched == Shape(get_all_users(admin_users, users, page.user).rows)

\* C20: picking a filter or a sort key leaves the fetched list as it was, and
\* the list shown is a function of the fetched list, the filter and the sort
\* key alone.
C20_FilterSortIsPure ==
  /\ [][(page' # page /\ page'.event.op \in {"setFilterRole", "setSortBy"})
          => page'.adminUsers = page.adminUsers]_vars
  /\ [](page.adminUsers # <<>> =>
          page.filteredUsers =
            filteredUsersMemo_Copy(Fetched, page.filterRole,
                                   page.sortBy).filteredUsers)

\* C23: when the bootstrap script has run to 'Setup complete', every user
\* holds a super_admin row, those who held an admin row before included.
C23_SetupMakesAllSuperAdmin ==
  (last.op = "setup" /\ last.result = "Setup complete")
    => \A u \in users : HasRole(admin_users, u, {"super_admin"})

\* the users who hold a super_admin row
SuperAdmins(tbl) ==
  {tbl[i].id : i \in {j \in DOMAIN tbl : tbl[j].role = "super_admin"}}

\* C24: no promote or demote call takes a user out of the set of
\* super_admins; a super_admin who targets themselves fails with the
\* untouchable error and changes nothing; once the set is non-empty it stays
\* non-empty.
C24_SuperAdminsNeverShrink ==
  [][/\ last'.op \in GateOps
          => \/ admin_users' = admin_users
             \/ SuperAdmins(admin_users) \subseteq SuperAdmins(admin_users')
     /\ (/\ last'.op \in GateOps
         /\ last'.caller = last'.target
         /\ last'.caller \in SuperAdmins(admin_users))
          => last'.result = Untouchable /\ admin_users' = admin_users
     /\ \/ admin_users' = admin_users
        \/ SuperAdmins(admin_users) = {}
        \/ SuperAdmins(admin_users') # {}]_vars

\* a super_admin tried to demote or re-role themselves while another user
\* was super_admin too
C24_Witness ==
  /\ last.op \in GateOps
  /\ last.caller = last.target
  /\ last.result = Untouchable
  /\ Cardinality(SuperAdmins(admin_users)) >= 2

\* C25: in a registry without super_admin every promote and every demote
\* fails with the unauthorized error, the registry never changes and nobody
\* becomes super_admin.
C25_BootstrapDeadEnd ==
  /\ [](SuperAdmins(admin_users) = {})
  /\ [](last.op \in GateOps => last.result = Unauthorized(last.op))
  /\ [][admin_users' = admin_users]_vars

\* an admin of a registry without super_admin asked for super_admin
C25_Witness ==
  /\ last.op = "promote"
  /\ last.new_role = "super_admin"
  /\ HasRole(admin_users, last.caller, {"admin"})
  /\ last.target \in users
  /\ last.result = PromoteUnauthorized
  /\ SuperAdmins(admin_users) = {}

\* C26: a promote or demote that fails leaves admin_users as it was; one that
\* succeeds leaves the rows of every user but its target as they were; no
\* promote, demote or listing changes the directory.
C26_GateFrame ==
  [][last'.op \in GateOps \cup {"get_all_users"} =>
       /\ users' = users
       /\ last'.op = "get_all_users" => admin_users' = admin_users
       /\ last'.result # OK => admin_users' = admin_users
       /\ \/ admin_users' = admin_users
          \/ \A u \in UserIds \ {last'.target} :
               RowsOf(admin_users', u) = RowsOf(admin_users, u)]_vars

\* a user who already had a row was promoted again while others held rows
C26_Witness ==
  /\ last.op = "promote"
  /\ last.result = OK
  /\ last.old # {}
  /\ \E i \in DOMAIN admin_users : admin_users[i].id # last.target


\* C27: the search box shows the results of the latest text typed, whatever
\* the order in which responses arrive: the searching indicator is on exactly
\* while some search request is in flight, a text shorter than three
\* characters shows no results, and once the last outstanding response has
\* been applied it is the response to the text now in the box
C27_SearchShowsLatest ==
  /\ page.isSearching = (page.pending # {})
  /\ TooShort(page.searchEmail) => page.searchResults = <<>>
  /\ (page.event.op = "searchResponse" /\ page.pending = {})
       => page.event.email = page.searchEmail


\* C21: in the promote modal, when the insert into admin_users succeeded and
\* the insert into admin_audit_log fails, the new row stays (nothing is
\* rolled back), the failure is only logged and the operator is told the
\* promotion succeeded; when the insert into admin_users fails, no audit
\* entry is written, then or later
C21_AuditBestEffort ==
  [][/\ (page.modal.step = "audit" /\ page'.modal = NoModal
           /\ ~page'.event.ok)
          => /\ admin_users' = admin_users
             /\ admin_audit_log' = admin_audit_log
             /\ page'.console = <<"audit", PermissionDenied>>
             /\ page'.alert[1] = "User successfully promoted to "
             /\ page'.invalidated
     /\ (page.modal.step = "insert" /\ page'.modal # page.modal
           /\ ~page'.event.ok)
          => /\ admin_audit_log' = admin_audit_log
             /\ admin_users' = admin_users
             /\ page'.modal = NoModal
     /\ admin_audit_log' # admin_audit_log => page.modal.step = "audit"]_vars

\* the audit insert has just failed after the modal's insert succeeded
C21_Witness ==
  /\ page.event = Event("audit", <<>>, FALSE)
  /\ admin_audit_log = <<>>
  /\ \E i \in DOMAIN admin_users : admin_users[i].created_by = page.user
  /\ page.alert[1] = "User successfully promoted to "

\* the message of the error a handler caught is in the text of its alert
Verbatim(p) == \E i \in DOMAIN p.alert : p.alert[i] = p.console[2]

\* C22: every failed promote or demote started from the page, by a row
\* button or by the modal, ends with an alert that contains the message of
\* the error, and the page sends nothing more for it
C22_FailureAlertsVerbatim ==
  [][/\ (page.request # NoRowRequest /\ page'.request # page.request
           /\ ~page'.event.ok)
          => /\ Verbatim(page')
             /\ page'.request = NoRowRequest
     /\ (page.modal # NoModal /\ page'.modal # page.modal
           /\ ~page'.event.ok /\ page'.event.op = "insert")
          => /\ Verbatim(page')
             /\ page'.modal = NoModal]_vars

\* C28: a row handler sets isProcessing when its request starts and clears
\* it when it ends, whatever the outcome; the flag is on exactly while the
\* request is in flight, so when every request returns the buttons come
\* back; the admin-users query is invalidated by a successful response only
C28_ProcessingFlag ==
  /\ [](page.isProcessing = (page.request # NoRowRequest))
  /\ [][(page.request # NoRowRequest /\ page'.request # page.request)
          => /\ ~page'.isProcessing
             /\ page'.request = NoRowRequest
             /\ page'.event.ok => page'.invalidated
             /\ ~page'.event.ok => page'.invalidated = page.invalidated]_vars
  /\ [](page.isProcessing => <>(~page.isProcessing))

\* a demote was answered with an error status and the buttons are back
C28_Witness ==
  /\ page.event = Event("demote", <<>>, FALSE)
  /\ page.console = <<"demote", Untouchable>>
  /\ ~page.isProcessing
  /\ ~page.invalidated

====
